---- MODULE Spec2Model ----
(***************************************************************************)
(* Permission-scoped content editing of the FAForever wiki.                *)
(*                                                                         *)
(* State: the editor_permissions rows of the current user, the pages,     *)
(* content_blocks and buttons tables, the clock read by datetime.utcnow() *)
(* and the last request handled together with its response.  Where the    *)
(* steps of two requests interleave, reqs holds each request's position   *)
(* and the values it has read so far.                                     *)
(*                                                                         *)
(* Strings that the code inspects character by character (page slugs and  *)
(* permission patterns) are sequences of one-character strings; strings   *)
(* that are only compared or copied (section ids, document keys, html)    *)
(* are TLA+ strings.  Page.title and the created_at columns are never     *)
(* read by the modelled operations and are left out of the rows.          *)
(***************************************************************************)
EXTENDS Integers, Sequences, FiniteSets, TLC

VARIABLES permissions, pages, blocks, buttons, now, resp, reqs

vars == <<permissions, pages, blocks, buttons, now, resp, reqs>>

store == <<pages, blocks, buttons>>

(***************************************************************************)
(* Bounds                                                                  *)
(***************************************************************************)
MaxGrants == 2

MaxTime == 1

MaxButtons == 3

(***************************************************************************)
(* Strings                                                                 *)
(***************************************************************************)
None == "None"

Star == <<"*">>

SlashStar == <<"/", "*">>

EmptySlug == <<>>

home == <<"h", "o", "m", "e">>

teams == <<"t", "e", "a", "m", "s">>

teamsters == <<"t", "e", "a", "m", "s", "t", "e", "r", "s">>

teams_trainer == <<"t", "e", "a", "m", "s", "/", "t", "r", "a", "i", "n", "e", "r">>

other_teams_x == <<"o", "t", "h", "e", "r", "/", "t", "e", "a", "m", "s", "/", "x">>

rules_x == <<"r", "u", "l", "e", "s", "/", "x">>

teams_star == <<"t", "e", "a", "m", "s", "/", "*">>

\* str.endswith
endswith(s, suffix) ==
    /\ Len(s) >= Len(suffix)
    /\ SubSeq(s, Len(s) - Len(suffix) + 1, Len(s)) = suffix

\* str.startswith
startswith(s, prefix) ==
    /\ Len(s) >= Len(prefix)
    /\ SubSeq(s, 1, Len(prefix)) = prefix

\* s[:-2]
DropLastTwo(s) == IF Len(s) >= 2 THEN SubSeq(s, 1, Len(s) - 2) ELSE <<>>

(***************************************************************************)
(* Inputs                                                                  *)
(***************************************************************************)
\* slugs a permission query is made for
QuerySlugs == {EmptySlug, home, teams, teamsters, teams_trainer, other_teams_x, rules_x}

\* page patterns of the grants
Patterns == {Star, teams_star, rules_x}

Sections == {"main-nav", "footer"}

SectionsOrNone == Sections \cup {None}

Grants == [page_slug : Patterns, section_id : SectionsOrNone, can_edit : BOOLEAN]

RECURSIVE SeqsUpTo(_, _)
SeqsUpTo(S, n) ==
    IF n = 0 THEN {<<>>}
    ELSE LET shorter == SeqsUpTo(S, n - 1)
         IN  shorter \cup {Append(q, x) : q \in {r \in shorter : Len(r) = n - 1}, x \in S}

GrantLists == SeqsUpTo(Grants, MaxGrants)

\* grant lists of the user whose requests reach the store
StoreGrantLists ==
    { <<[page_slug |-> teams_star, section_id |-> None, can_edit |-> TRUE]>>,
      <<[page_slug |-> Star, section_id |-> None, can_edit |-> TRUE]>> }

\* slugs of the requests that reach the store
StoreSlugs == {home, rules_x}

\* request bodies of PUT content: the JSON object with or without "content"
Bodies == { [has_content |-> TRUE, content |-> "<p>x</p>"],
            [has_content |-> TRUE, content |-> ""],
            [has_content |-> FALSE, content |-> ""] }

(***************************************************************************)
(* Permission check                                                        *)
(***************************************************************************)
\* models.py:30
page_is_wildcard_typo(perm) == perm.page_slug = SlashStar

page_is_wildcard(perm) == perm.page_slug = Star

\* models.py:35 and models.py:38
section_matches(perm, section_id) ==
    \/ section_id = None
    \/ perm.section_id = None
    \/ perm.section_id = section_id

\* models.py:32-35
prefix_matches(perm, page_slug, section_id) ==
    /\ endswith(perm.page_slug, SlashStar)
    /\ LET prefix == DropLastTwo(perm.page_slug)
       IN  startswith(page_slug, prefix)
    /\ section_matches(perm, section_id)

\* models.py:37-38
exact_matches(perm, page_slug, section_id) ==
    /\ perm.page_slug = page_slug
    /\ section_matches(perm, section_id)

\* the loop of User.has_permission from the i-th grant on
RECURSIVE has_permission_from(_, _, _, _)
has_permission_from(perms, i, page_slug, section_id) ==
    IF i > Len(perms) THEN FALSE
    ELSE IF page_is_wildcard(perms[i]) THEN TRUE
    ELSE IF prefix_matches(perms[i], page_slug, section_id) THEN perms[i].can_edit
    ELSE IF exact_matches(perms[i], page_slug, section_id) THEN perms[i].can_edit
    ELSE has_permission_from(perms, i + 1, page_slug, section_id)

has_permission(perms, page_slug, section_id) ==
    has_permission_from(perms, 1, page_slug, section_id)

can_edit_no_login_check(authenticated, perms, page_slug, section_id) ==
    has_permission(perms, page_slug, section_id)

can_edit(authenticated, perms, page_slug, section_id) ==
    IF ~authenticated THEN FALSE
    ELSE has_permission(perms, page_slug, section_id)

(***************************************************************************)
(* Content documents                                                       *)
(*                                                                         *)
(* The content_json column holds NULL, the empty string, the text of a    *)
(* JSON object (its members in textual order, duplicates possible) or a   *)
(* text that json.loads does not turn into a dict.  A Python dict is the  *)
(* sequence of its items in insertion order, keys pairwise different.     *)
(***************************************************************************)
NullText == [kind |-> "null", members |-> <<>>]

EmptyText == [kind |-> "empty", members |-> <<>>]

MalformedText == [kind |-> "malformed", members |-> <<>>]

ObjectText(members) == [kind |-> "object", members |-> members]

\* the column default '{}' (models.py:58)
DefaultText == ObjectText(<<>>)

dict_keys(d) == {d[i][1] : i \in 1..Len(d)}

dict_has(d, key) == key \in dict_keys(d)

\* d[key] for a key of d
dict_value(d, key) == d[CHOOSE i \in 1..Len(d) : d[i][1] = key][2]

\* d.get(key) or default: an empty value gives way to the default
dict_get_falsy(d, key, default) ==
    IF dict_has(d, key) /\ dict_value(d, key) # "" THEN dict_value(d, key) ELSE default

\* d.get(key, default)
dict_get(d, key, default) == IF dict_has(d, key) THEN dict_value(d, key) ELSE default

\* d[key] = value
dict_setitem(d, key, value) ==
    IF dict_has(d, key)
    THEN [i \in 1..Len(d) |-> IF d[i][1] = key THEN <<key, value>> ELSE d[i]]
    ELSE Append(d, <<key, value>>)

\* json.loads of an object text: later duplicates of a key replace its value
RECURSIVE loads_members(_, _)
loads_members(members, d) ==
    IF members = <<>> THEN d
    ELSE loads_members(Tail(members), dict_setitem(d, Head(members)[1], Head(members)[2]))

\* json.loads; raised is TRUE where the call (or the dict use of its result) raises
json_loads(text) ==
    IF text.kind = "object"
    THEN [raised |-> FALSE, value |-> loads_members(text.members, <<>>)]
    ELSE [raised |-> TRUE, value |-> <<>>]

\* json.dumps of a dict
json_dumps(d) == ObjectText(d)

\* Page.get_content (models.py:64-65)
get_content(content_json) ==
    IF content_json.kind \in {"null", "empty"}
    THEN [raised |-> FALSE, value |-> <<>>]
    ELSE json_loads(content_json)

\* the column keeps the empty object
set_content_dropped(content) == DefaultText

\* Page.set_content (models.py:67-68)
set_content(content) == json_dumps(content)

\* get_default_page_content (app.py:540-660) for the slugs outside its table
default_page_content(slug) == "<p>This page is under construction. Content coming soon!</p>"

(***************************************************************************)
(* Store                                                                   *)
(***************************************************************************)
\* Page.query.filter_by(slug=slug).first(): index of the row, 0 for None
page_first(rows, slug) ==
    IF \E i \in 1..Len(rows) : rows[i].slug = slug
    THEN CHOOSE i \in 1..Len(rows) :
            /\ rows[i].slug = slug
            /\ \A j \in 1..(i - 1) : rows[j].slug # slug
    ELSE 0

\* the lookup with block_type='button_grid' added to the filter
block_first_typed(rows, page_id, section_id) ==
    IF \E i \in 1..Len(rows) : /\ rows[i].page_id = page_id
                               /\ rows[i].section_id = section_id
                               /\ rows[i].block_type = "button_grid"
    THEN CHOOSE i \in 1..Len(rows) :
            /\ rows[i].page_id = page_id
            /\ rows[i].section_id = section_id
            /\ rows[i].block_type = "button_grid"
    ELSE 0

\* ContentBlock.query.filter_by(page_id=..., section_id=...).first()
block_first(rows, page_id, section_id) ==
    IF \E i \in 1..Len(rows) : rows[i].page_id = page_id /\ rows[i].section_id = section_id
    THEN CHOOSE i \in 1..Len(rows) :
            /\ rows[i].page_id = page_id /\ rows[i].section_id = section_id
            /\ \A j \in 1..(i - 1) : ~(rows[j].page_id = page_id /\ rows[j].section_id = section_id)
    ELSE 0

\* the number of buttons of the block in place of their greatest position
max_position_count(rows, content_block_id) ==
    Cardinality({i \in 1..Len(rows) : rows[i].content_block_id = content_block_id})

\* db.func.max(Button.position) ... .scalar() or 0
max_position(rows, content_block_id) ==
    LET ps == {rows[i].position : i \in {j \in 1..Len(rows) : rows[j].content_block_id = content_block_id}}
    IN  IF ps = {} THEN 0 ELSE CHOOSE p \in ps : \A q \in ps : q <= p

\* content_json texts a stored page can hold before the first request
SeedTexts ==
    { DefaultText, NullText, EmptyText, MalformedText,
      ObjectText(<<(<<"title", "T">>)>>),
      ObjectText(<<(<<"html", "old">>), (<<"title", "T">>)>>),
      ObjectText(<<(<<"title", "T">>), (<<"title", "U">>)>>) }

NoRequest ==
    [op |-> "none", authenticated |-> FALSE, slug |-> EmptySlug, section_id |-> None,
     status |-> "none", result |-> FALSE, html |-> "", edit |-> None]

\* the requests in flight
Procs == {1, 2}

Idle ==
    [op |-> "none", pc |-> "idle", slug |-> EmptySlug, key |-> "", value |-> "",
     found |-> 0, read_text |-> NullText, new_text |-> NullText, at |-> 0,
     section_id |-> None, page_id |-> 0, block_id |-> 0, max_pos |-> 0,
     status |-> "none", html |-> ""]

NoRequests == [p \in Procs |-> Idle]

\* seed_demo_data (models.py:210-242): the home page, its main-nav block, its buttons
SeedPages(text) == << [id |-> 1, slug |-> home, content_json |-> text, updated_at |-> 0] >>

SeedBlocks == << [id |-> 1, page_id |-> 1, block_type |-> "button_grid", section_id |-> "main-nav"] >>

\* the navigation buttons at positions 0, 1, ... (for i, ... in enumerate(nav_items)),
\* as many as leave room for one more button
SeedButtons ==
    [i \in 1..(MaxButtons - 1) |-> [id |-> i, content_block_id |-> 1, position |-> i - 1]]

Init ==
    /\ permissions \in StoreGrantLists
    /\ \E text \in SeedTexts : pages = SeedPages(text)
    /\ blocks = SeedBlocks
    /\ buttons = SeedButtons
    /\ now = 0
    /\ resp = NoRequest
    /\ reqs = NoRequests

\* datetime.utcnow() read by a request: the clock does not run backwards
Clock(t) == t \in now..(IF now < MaxTime THEN now + 1 ELSE now)

\* flask_login.login_required switched off
login_required_off(authenticated) == TRUE

\* flask_login.login_required (app.py:326, app.py:356; auth.py:8-13)
login_required(authenticated) == authenticated

Response(op, authenticated, slug, section_id, status, result, html) ==
    [op |-> op, authenticated |-> authenticated, slug |-> slug, section_id |-> section_id,
     status |-> status, result |-> result, html |-> html, edit |-> None]

(***************************************************************************)
(* Requests                                                                *)
(***************************************************************************)
\* GET authorize: auth.can_edit evaluated for the current user
Authorize ==
    \E authenticated \in BOOLEAN, page_slug \in QuerySlugs, section_id \in SectionsOrNone :
        /\ resp' = Response("can_edit", authenticated, page_slug, section_id, "ok",
                            can_edit(authenticated, permissions, page_slug, section_id), "")
        /\ UNCHANGED <<permissions, pages, blocks, buttons, now, reqs>>

\* request.args.get('edit'): None when the parameter is absent
EditFlags == {None, "1", "0"}

\* editor mode for every logged-in caller
editor_mode_flag_ignored(authenticated, edit) == authenticated

\* auth.editor_mode_active (auth.py:55-60)
editor_mode_active(authenticated, edit) == authenticated /\ edit = "1"

\* inject_globals (app.py:41-61): editor_mode of the request for a page
inject_globals ==
    \E authenticated \in BOOLEAN, edit \in EditFlags, slug \in StoreSlugs :
        /\ resp' = [Response("inject_globals", authenticated, slug, None, "ok",
                             editor_mode_active(authenticated, edit), "")
                       EXCEPT !.edit = edit]
        /\ UNCHANGED <<permissions, pages, blocks, buttons, now, reqs>>

\* GET /page/<slug> (app.py:265-309)
page ==
    \E authenticated \in BOOLEAN, slug \in StoreSlugs, t \in {u \in 0..MaxTime : Clock(u)} :
        LET found == page_first(pages, slug)
            created == [id |-> Len(pages) + 1, slug |-> slug,
                        content_json |-> DefaultText, updated_at |-> t]
            rows == IF found = 0 THEN Append(pages, created) ELSE pages
            page_obj == IF found = 0 THEN created ELSE pages[found]
            content == get_content(page_obj.content_json)
        IN  /\ pages' = rows
            /\ now' = t
            /\ resp' = IF content.raised
                       THEN Response("page", authenticated, slug, None, "error", FALSE, "")
                       ELSE Response("page", authenticated, slug, None, "ok", FALSE,
                                     dict_get(content.value, "html", default_page_content(slug)))
            /\ UNCHANGED <<permissions, blocks, buttons, reqs>>

\* the slugs of /rules/<slug> and the prefix rules_detail puts before them
RuleSlugs == {<<"x">>}

rules_prefix == <<"r", "u", "l", "e", "s", "/">>

\* get_default_rules_content (app.py:423-538) for the slugs outside its table
default_rules_content(slug) == "<p>Content coming soon...</p>"

\* GET /rules/<slug> (app.py:178-202)
rules_detail ==
    \E authenticated \in BOOLEAN, slug \in RuleSlugs, t \in {u \in 0..MaxTime : Clock(u)} :
        LET page_slug == rules_prefix \o slug
            found == page_first(pages, page_slug)
            created == [id |-> Len(pages) + 1, slug |-> page_slug,
                        content_json |-> DefaultText, updated_at |-> t]
            rows == IF found = 0 THEN Append(pages, created) ELSE pages
            page_obj == IF found = 0 THEN created ELSE pages[found]
            content == get_content(page_obj.content_json)
        IN  /\ pages' = rows
            /\ now' = t
            /\ resp' = IF content.raised
                       THEN Response("rules_detail", authenticated, page_slug, None,
                                     "error", FALSE, "")
                       ELSE Response("rules_detail", authenticated, page_slug, None, "ok", FALSE,
                                     dict_get(content.value, "html", default_rules_content(slug)))
            /\ UNCHANGED <<permissions, blocks, buttons, reqs>>

\* content['html'] = ... replacing the whole document
patch_html_replace(content, data) ==
    <<(<<"html", IF data.has_content THEN data.content ELSE "">>)>>

\* content['html'] = data.get('content', '') (app.py:364)
patch_html(content, data) ==
    dict_setitem(content, "html", IF data.has_content THEN data.content ELSE "")

\* the write leaves updated_at as it was
touch_skipped(row, t) == row

\* page.updated_at = datetime.utcnow() (app.py:366)
touch(row, t) == [row EXCEPT !.updated_at = t]

\* PUT /api/page/<slug>/content (app.py:355-368)
update_page_content ==
    \E authenticated \in BOOLEAN, slug \in StoreSlugs, data \in Bodies,
       t \in {u \in 0..MaxTime : Clock(u)} :
        /\ now' = t
        /\ UNCHANGED <<permissions, blocks, buttons, reqs>>
        /\ IF ~login_required(authenticated)
           THEN /\ resp' = Response("update_page_content", authenticated, slug, None,
                                    "NotAuthenticated", FALSE, "")
                /\ UNCHANGED pages
           ELSE LET found == page_first(pages, slug)
                    old_text == IF found = 0 THEN NullText ELSE pages[found].content_json
                    content == get_content(old_text)
                    new_text == set_content(patch_html(content.value, data))
                IN  IF content.raised
                    THEN /\ resp' = Response("update_page_content", authenticated, slug, None,
                                             "error", FALSE, "")
                         /\ UNCHANGED pages
                    ELSE /\ resp' = Response("update_page_content", authenticated, slug, None,
                                             "ok", TRUE,
                                             IF data.has_content THEN data.content ELSE "")
                         /\ pages' = IF found = 0
                                     THEN Append(pages,
                                                 touch([id |-> Len(pages) + 1, slug |-> slug,
                                                        content_json |-> new_text,
                                                        updated_at |-> t], t))
                                     ELSE [pages EXCEPT
                                             ![found] = touch([@ EXCEPT !.content_json = new_text], t)]

\* POST /api/button (app.py:325-353)
create_button ==
    \E authenticated \in BOOLEAN, page_slug \in StoreSlugs, section_id \in Sections,
       t \in {u \in 0..MaxTime : Clock(u)} :
        /\ now' = t
        /\ UNCHANGED <<permissions, reqs>>
        /\ IF ~login_required(authenticated)
           THEN /\ resp' = Response("create_button", authenticated, page_slug, section_id,
                                    "NotAuthenticated", FALSE, "")
                /\ UNCHANGED <<pages, blocks, buttons>>
           ELSE LET found == page_first(pages, page_slug)
                    page_id == IF found = 0 THEN Len(pages) + 1 ELSE pages[found].id
                    page_rows == IF found = 0
                                 THEN Append(pages, [id |-> page_id, slug |-> page_slug,
                                                     content_json |-> DefaultText,
                                                     updated_at |-> t])
                                 ELSE pages
                    bfound == block_first(blocks, page_id, section_id)
                    block_id == IF bfound = 0 THEN Len(blocks) + 1 ELSE blocks[bfound].id
                    block_rows == IF bfound = 0
                                  THEN Append(blocks, [id |-> block_id, page_id |-> page_id,
                                                       block_type |-> "button_grid",
                                                       section_id |-> section_id])
                                  ELSE blocks
                    max_pos == max_position(buttons, block_id)
                IN  /\ Len(buttons) < MaxButtons
                    /\ pages' = page_rows
                    /\ blocks' = block_rows
                    /\ buttons' = Append(buttons, [id |-> Len(buttons) + 1,
                                                   content_block_id |-> block_id,
                                                   position |-> max_pos + 1])
                    /\ resp' = Response("create_button", authenticated, page_slug, section_id,
                                        "ok", TRUE, "")

Next == page \/ rules_detail \/ update_page_content \/ create_button

Spec == Init /\ [][Next]_vars

(***************************************************************************)
(* Requests whose steps interleave                                         *)
(*                                                                         *)
(* Each request runs in a session of its own: it reads the pages table    *)
(* with a SELECT, works on the objects it loaded, and writes with the     *)
(* INSERT or UPDATE of its commit.  The slug column is UNIQUE             *)
(* (models.py:55): the INSERT of a slug that is present raises            *)
(* IntegrityError, which no handler catches.  The UPDATE names the        *)
(* attributes whose value the request changed.                            *)
(***************************************************************************)
\* the slug column without its UNIQUE constraint
slug_unchecked(rows, slug) == FALSE

\* slug = db.Column(db.String(200), unique=True, ...) (models.py:55): the INSERT
\* of a slug that a committed row already has is refused
slug_taken(rows, slug) == page_first(rows, slug) # 0

Finish(p, status, html) ==
    reqs' = [reqs EXCEPT ![p] = [@ EXCEPT !.pc = "done", !.status = status, !.html = html]]

\* GET /page/<slug> arrives
StartPage(p) ==
    /\ reqs[p].pc = "idle"
    /\ \E slug \in StoreSlugs :
          reqs' = [reqs EXCEPT ![p] = [Idle EXCEPT !.op = "page", !.pc = "select",
                                                  !.slug = slug]]
    /\ UNCHANGED <<permissions, pages, blocks, buttons, now, resp>>

\* PUT /api/page/<slug>/content of a logged-in user arrives
StartUpdate(p) ==
    /\ reqs[p].pc = "idle"
    /\ \E slug \in StoreSlugs, data \in Bodies :
          reqs' = [reqs EXCEPT ![p] =
                      [Idle EXCEPT !.op = "update_page_content", !.pc = "select",
                                   !.slug = slug, !.key = "html",
                                   !.value = IF data.has_content THEN data.content ELSE ""]]
    /\ UNCHANGED <<permissions, pages, blocks, buttons, now, resp>>

\* a partial update of another key of the document arrives
StartOtherKey(p) ==
    /\ reqs[p].pc = "idle"
    /\ \E slug \in StoreSlugs :
          reqs' = [reqs EXCEPT ![p] =
                      [Idle EXCEPT !.op = "update_document", !.pc = "select",
                                   !.slug = slug, !.key = "title", !.value = "N"]]
    /\ UNCHANGED <<permissions, pages, blocks, buttons, now, resp>>

\* page: the lookup, and the rendering of a page that was found (app.py:268-269, 301-302)
page_select(p) ==
    /\ reqs[p].pc = "select"
    /\ reqs[p].op = "page"
    /\ LET found == page_first(pages, reqs[p].slug)
           content == get_content(pages[found].content_json)
       IN  IF found = 0
           THEN reqs' = [reqs EXCEPT ![p] = [@ EXCEPT !.pc = "insert"]]
           ELSE IF content.raised
                THEN Finish(p, "error", "")
                ELSE Finish(p, "ok", dict_get(content.value, "html",
                                              default_page_content(reqs[p].slug)))
    /\ UNCHANGED <<permissions, pages, blocks, buttons, now, resp>>

\* page: the lazy creation and its commit (app.py:270-272)
page_insert(p) ==
    /\ reqs[p].pc = "insert"
    /\ \E t \in {u \in 0..MaxTime : Clock(u)} :
          /\ now' = t
          /\ IF slug_taken(pages, reqs[p].slug)
             THEN /\ Finish(p, "IntegrityError", "")
                  /\ UNCHANGED pages
             ELSE /\ pages' = Append(pages, [id |-> Len(pages) + 1, slug |-> reqs[p].slug,
                                             content_json |-> DefaultText, updated_at |-> t])
                  /\ reqs' = [reqs EXCEPT ![p] = [@ EXCEPT !.pc = "render",
                                                           !.found = Len(pages) + 1]]
    /\ UNCHANGED <<permissions, blocks, buttons, resp>>

\* page: the created page, reloaded after the commit, is rendered (app.py:301-302)
page_render(p) ==
    /\ reqs[p].pc = "render"
    /\ LET content == get_content(pages[reqs[p].found].content_json)
       IN  IF content.raised
           THEN Finish(p, "error", "")
           ELSE Finish(p, "ok", dict_get(content.value, "html",
                                         default_page_content(reqs[p].slug)))
    /\ UNCHANGED <<permissions, pages, blocks, buttons, now, resp>>

\* update: the lookup and the new document built in memory (app.py:358-366)
update_select(p) ==
    /\ reqs[p].pc = "select"
    /\ reqs[p].op \in {"update_page_content", "update_document"}
    /\ \E t \in {u \in 0..MaxTime : Clock(u)} :
          LET found == page_first(pages, reqs[p].slug)
              old_text == IF found = 0 THEN NullText ELSE pages[found].content_json
              content == get_content(old_text)
          IN  /\ now' = t
              /\ IF content.raised
                 THEN Finish(p, "error", "")
                 ELSE reqs' = [reqs EXCEPT ![p] =
                                  [@ EXCEPT !.pc = "commit", !.found = found,
                                            !.read_text = old_text,
                                            !.new_text = set_content(
                                                dict_setitem(content.value, reqs[p].key,
                                                             reqs[p].value)),
                                            !.at = t]]
    /\ UNCHANGED <<permissions, pages, blocks, buttons, resp>>

\* update: db.session.commit() (app.py:367)
update_commit(p) ==
    /\ reqs[p].pc = "commit"
    /\ LET r == reqs[p]
       IN  IF r.found = 0
           THEN IF slug_taken(pages, r.slug)
                THEN /\ Finish(p, "IntegrityError", "")
                     /\ UNCHANGED pages
                ELSE /\ pages' = Append(pages, touch([id |-> Len(pages) + 1, slug |-> r.slug,
                                                      content_json |-> r.new_text,
                                                      updated_at |-> r.at], r.at))
                     /\ Finish(p, "ok", r.value)
           ELSE /\ pages' = [pages EXCEPT ![r.found] =
                                touch(IF r.new_text # r.read_text
                                      THEN [@ EXCEPT !.content_json = r.new_text]
                                      ELSE @, r.at)]
                /\ Finish(p, "ok", r.value)
    /\ UNCHANGED <<permissions, blocks, buttons, now, resp>>

\* POST /api/button of a logged-in user arrives
StartButton(p) ==
    /\ reqs[p].pc = "idle"
    /\ \E page_slug \in StoreSlugs, section_id \in Sections :
          reqs' = [reqs EXCEPT ![p] =
                      [Idle EXCEPT !.op = "create_button", !.pc = "select",
                                   !.slug = page_slug, !.section_id = section_id]]
    /\ UNCHANGED <<permissions, pages, blocks, buttons, now, resp>>

\* create_button: the page lookup (app.py:331-332)
button_select_page(p) ==
    /\ reqs[p].pc = "select"
    /\ reqs[p].op = "create_button"
    /\ LET found == page_first(pages, reqs[p].slug)
       IN  IF found = 0
           THEN reqs' = [reqs EXCEPT ![p] = [@ EXCEPT !.pc = "flush_page"]]
           ELSE reqs' = [reqs EXCEPT ![p] = [@ EXCEPT !.pc = "select_block", !.found = found,
                                                     !.page_id = pages[found].id]]
    /\ UNCHANGED <<permissions, pages, blocks, buttons, now, resp>>

\* create_button: the INSERT of the page at its flush, and in the write
\* transaction it opens the block, the button and the commit (app.py:333-352)
button_flush_page(p) ==
    /\ reqs[p].pc = "flush_page"
    /\ \E t \in {u \in 0..MaxTime : Clock(u)} :
          LET r == reqs[p]
              page_id == Len(pages) + 1
              bfound == block_first(blocks, page_id, r.section_id)
              block_id == IF bfound = 0 THEN Len(blocks) + 1 ELSE blocks[bfound].id
              max_pos == max_position(buttons, block_id)
          IN  /\ now' = t
              /\ IF slug_taken(pages, r.slug)
                 THEN /\ Finish(p, "IntegrityError", "")
                      /\ UNCHANGED <<pages, blocks, buttons>>
                 ELSE /\ pages' = Append(pages, [id |-> page_id, slug |-> r.slug,
                                                 content_json |-> DefaultText,
                                                 updated_at |-> t])
                      /\ blocks' = IF bfound = 0
                                   THEN Append(blocks, [id |-> block_id, page_id |-> page_id,
                                                        block_type |-> "button_grid",
                                                        section_id |-> r.section_id])
                                   ELSE blocks
                      /\ buttons' = Append(buttons, [id |-> Len(buttons) + 1,
                                                     content_block_id |-> block_id,
                                                     position |-> max_pos + 1])
                      /\ reqs' = [reqs EXCEPT ![p] =
                                     [@ EXCEPT !.pc = "done", !.status = "ok",
                                               !.page_id = page_id, !.block_id = block_id,
                                               !.max_pos = max_pos]]
    /\ UNCHANGED <<permissions, resp>>

\* create_button: the block lookup of a page that was found (app.py:336-337)
button_select_block(p) ==
    /\ reqs[p].pc = "select_block"
    /\ LET bfound == block_first(blocks, reqs[p].page_id, reqs[p].section_id)
       IN  IF bfound = 0
           THEN reqs' = [reqs EXCEPT ![p] = [@ EXCEPT !.pc = "flush_block"]]
           ELSE reqs' = [reqs EXCEPT ![p] = [@ EXCEPT !.pc = "select_max",
                                                     !.block_id = blocks[bfound].id]]
    /\ UNCHANGED <<permissions, pages, blocks, buttons, now, resp>>

\* create_button: the INSERT of the block at its flush, and in the write
\* transaction it opens the button and the commit (app.py:338-352)
button_flush_block(p) ==
    /\ reqs[p].pc = "flush_block"
    /\ LET r == reqs[p]
           block_id == Len(blocks) + 1
           max_pos == max_position(buttons, block_id)
       IN  /\ blocks' = Append(blocks, [id |-> block_id, page_id |-> r.page_id,
                                        block_type |-> "button_grid",
                                        section_id |-> r.section_id])
           /\ buttons' = Append(buttons, [id |-> Len(buttons) + 1,
                                          content_block_id |-> block_id,
                                          position |-> max_pos + 1])
           /\ reqs' = [reqs EXCEPT ![p] =
                          [@ EXCEPT !.pc = "done", !.status = "ok",
                                    !.block_id = block_id, !.max_pos = max_pos]]
    /\ UNCHANGED <<permissions, pages, now, resp>>

\* create_button: the SELECT max(position) of a block that was found (app.py:341)
button_select_max(p) ==
    /\ reqs[p].pc = "select_max"
    /\ reqs' = [reqs EXCEPT ![p] =
                   [@ EXCEPT !.pc = "insert_button",
                             !.max_pos = max_position(buttons, reqs[p].block_id)]]
    /\ UNCHANGED <<permissions, pages, blocks, buttons, now, resp>>

\* create_button: the INSERT of the button at the commit (app.py:342-352)
button_commit(p) ==
    /\ reqs[p].pc = "insert_button"
    /\ buttons' = Append(buttons, [id |-> Len(buttons) + 1,
                                   content_block_id |-> reqs[p].block_id,
                                   position |-> reqs[p].max_pos + 1])
    /\ Finish(p, "ok", "")
    /\ UNCHANGED <<permissions, pages, blocks, now, resp>>

\* documents of the home page when the requests arrive
ConcTexts == { DefaultText, NullText,
               ObjectText(<<(<<"html", "old">>), (<<"title", "T">>)>>) }

InitConc ==
    /\ permissions = <<[page_slug |-> Star, section_id |-> None, can_edit |-> TRUE]>>
    /\ \E text \in ConcTexts : pages = SeedPages(text)
    /\ blocks = SeedBlocks
    /\ buttons = SeedButtons
    /\ now = 0
    /\ resp = NoRequest
    /\ reqs = NoRequests

NextConc ==
    \E p \in Procs :
        \/ StartPage(p)
        \/ StartUpdate(p)
        \/ page_select(p)
        \/ page_insert(p)
        \/ page_render(p)
        \/ update_select(p)
        \/ update_commit(p)

SpecConc == InitConc /\ [][NextConc]_vars

\* the same with a writer of another key of the document
NextConcKeys == NextConc \/ \E p \in Procs : StartOtherKey(p)

SpecConcKeys == InitConc /\ [][NextConcKeys]_vars

\* page reads, content writes and button creations together
NextConcButtons ==
    \/ NextConc
    \/ \E p \in Procs :
          \/ StartButton(p)
          \/ button_select_page(p)
          \/ button_flush_page(p)
          \/ button_select_block(p)
          \/ button_flush_block(p)
          \/ button_select_max(p)
          \/ button_commit(p)

SpecConcButtons == InitConc /\ [][NextConcButtons]_vars

\* button creation on its own: tables without buttons (seed_comprehensive_data),
\* with the seeded buttons, or with a gap below the greatest position, and a
\* block of another type on the home page
TextBlock == [id |-> 2, page_id |-> 1, block_type |-> "text", section_id |-> "footer"]

ButtonSeeds ==
    { <<>>, SeedButtons, << [id |-> 1, content_block_id |-> 1, position |-> 5] >> }

InitButtons ==
    /\ permissions = <<>>
    /\ pages = SeedPages(DefaultText)
    /\ blocks \in {SeedBlocks, Append(SeedBlocks, TextBlock)}
    /\ buttons \in ButtonSeeds
    /\ now = 0
    /\ resp = NoRequest
    /\ reqs = NoRequests

NextButtons == create_button

SpecButtons == InitButtons /\ [][NextButtons]_vars

\* the permission check on its own: every grant list up to MaxGrants, every query
InitAuth ==
    /\ permissions \in GrantLists
    /\ pages = SeedPages(DefaultText)
    /\ blocks = SeedBlocks
    /\ buttons = SeedButtons
    /\ now = 0
    /\ resp = NoRequest
    /\ reqs = NoRequests

NextAuth == Authorize \/ inject_globals

SpecAuth == InitAuth /\ [][NextAuth]_vars

(***************************************************************************)
(* The permission rules as the specification words them                    *)
(***************************************************************************)
\* "*" matches every slug, "prefix/*" the slugs that start with "prefix/",
\* any other pattern the slug equal to it
StatedPageMatch(pattern, page_slug) ==
    IF pattern = Star THEN TRUE
    ELSE IF endswith(pattern, SlashStar)
         THEN startswith(page_slug, SubSeq(pattern, 1, Len(pattern) - 1))
         ELSE pattern = page_slug

\* the grant's section is absent, or the query's is, or the two are equal
StatedSectionMatch(grant, section_id) ==
    \/ grant.section_id = None
    \/ section_id = None
    \/ grant.section_id = section_id

StatedMatch(grant, page_slug, section_id) ==
    /\ StatedPageMatch(grant.page_slug, page_slug)
    /\ StatedSectionMatch(grant, section_id)

\* index of the first grant that matches on page and section, 0 when none does
StatedFirstMatch(perms, page_slug, section_id) ==
    IF \E i \in 1..Len(perms) : StatedMatch(perms[i], page_slug, section_id)
    THEN CHOOSE i \in 1..Len(perms) :
            /\ StatedMatch(perms[i], page_slug, section_id)
            /\ \A j \in 1..(i - 1) : ~StatedMatch(perms[j], page_slug, section_id)
    ELSE 0

AuthorizedQuery == resp.op = "can_edit" /\ resp.authenticated

(***************************************************************************)
(* Claims                                                                  *)
(***************************************************************************)

\* C1: a PUT content request of an authenticated user for whom
\* authorize(user, slug, None) is false is rejected with an authorization
\* error and changes no page record, document or updated_at value.
C1_UpdateFailsClosed ==
    [][ (/\ resp'.op = "update_page_content"
         /\ resp'.authenticated
         /\ ~can_edit(TRUE, permissions, resp'.slug, None))
        => (resp'.status = "NotAuthorized" /\ store' = store) ]_vars

\* C2: a POST button request is accepted only when the caller is authorized
\* on page_slug with section_id None; otherwise no page, block or button is
\* created.
C2_CreateButtonFailsClosed ==
    [][ (/\ resp'.op = "create_button"
         /\ resp'.authenticated
         /\ ~can_edit(TRUE, permissions, resp'.slug, None))
        => (resp'.status # "ok" /\ store' = store) ]_vars

\* C3: for an authenticated user, authorize returns the can_edit value of the
\* first grant in insertion order that matches the query on page and section,
\* whichever pattern kind that grant has.
C3_FirstMatchWins ==
    AuthorizedQuery =>
        LET i == StatedFirstMatch(permissions, resp.slug, resp.section_id)
        IN  i # 0 => resp.result = permissions[i].can_edit

\* C4: a prefix grant "prefix/*" matches exactly the slugs that start with
\* "prefix/": a user whose only grant is an allowing prefix grant for all
\* sections is authorized on exactly those slugs.
C4_PrefixMatchesWithSlash ==
    (/\ AuthorizedQuery
     /\ Len(permissions) = 1
     /\ endswith(permissions[1].page_slug, SlashStar)
     /\ permissions[1].section_id = None
     /\ permissions[1].can_edit)
    => (resp.result <=>
            startswith(resp.slug,
                       SubSeq(permissions[1].page_slug, 1, Len(permissions[1].page_slug) - 1)))

\* C5: authorize is false for every unauthenticated caller, whatever the
\* slug, the section and the stored grants.
C5_UnauthenticatedNeverAuthorized ==
    (resp.op = "can_edit" /\ ~resp.authenticated) => resp.result = FALSE

C5_Witness ==
    /\ resp.op = "can_edit"
    /\ ~resp.authenticated
    /\ Len(permissions) >= 1
    /\ permissions[1] = [page_slug |-> Star, section_id |-> None, can_edit |-> TRUE]
    /\ resp.result = FALSE

\* the grant's section is compatible with the section of the last query
SectionCompatible(grant) == StatedSectionMatch(grant, resp.section_id)

\* C6: a grant restricted to a section S never decides a query for a
\* different section T, and evaluation continues with the next grant: the
\* answer is the one the list gives without its section-incompatible grants.
C6_SectionMismatchSkipsGrant ==
    AuthorizedQuery =>
        resp.result = can_edit(TRUE, SelectSeq(permissions, SectionCompatible),
                               resp.slug, resp.section_id)

\* the grant cannot match the slug under either reading of the patterns
PlainOtherPage(grant, page_slug) ==
    /\ grant.page_slug # Star
    /\ ~endswith(grant.page_slug, SlashStar)
    /\ grant.page_slug # page_slug

\* C7: a wildcard grant "*" page-matches every slug, the hierarchical and the
\* empty one included: an allowing, section-compatible wildcard grant that no
\* earlier grant precedes on the page authorizes the query.
C7_WildcardMatchesEverySlug ==
    AuthorizedQuery =>
        \A i \in 1..Len(permissions) :
            (/\ permissions[i].page_slug = Star
             /\ permissions[i].can_edit
             /\ StatedSectionMatch(permissions[i], resp.section_id)
             /\ \A j \in 1..(i - 1) : PlainOtherPage(permissions[j], resp.slug))
            => resp.result = TRUE

C7_Witness ==
    /\ AuthorizedQuery
    /\ resp.slug = EmptySlug
    /\ Len(permissions) = 2
    /\ permissions[1].page_slug = rules_x
    /\ permissions[2] = [page_slug |-> Star, section_id |-> "footer", can_edit |-> TRUE]
    /\ resp.section_id = "footer"
    /\ resp.result = TRUE

\* C8: for an authenticated user, authorize is false when no grant matches
\* the query on page and section, in particular with no grants at all.
C8_NoMatchDenies ==
    (AuthorizedQuery /\ StatedFirstMatch(permissions, resp.slug, resp.section_id) = 0)
    => resp.result = FALSE

\* C9: an unauthenticated PUT content or POST button request is rejected as
\* not authenticated and leaves pages, blocks and buttons unchanged.
C9_UnauthenticatedWriteRejected ==
    [][ (resp'.op \in {"update_page_content", "create_button"} /\ ~resp'.authenticated)
        => (resp'.status = "NotAuthenticated" /\ store' = store) ]_vars

C9_Witness ==
    /\ resp.op = "update_page_content"
    /\ ~resp.authenticated
    /\ resp.status = "NotAuthenticated"
    /\ resp.slug = rules_x
    /\ page_first(pages, rules_x) = 0

\* the document of the first page with the slug, empty when there is none
DocumentOf(rows, slug) ==
    IF page_first(rows, slug) = 0 THEN <<>>
    ELSE get_content(rows[page_first(rows, slug)].content_json).value

\* C10: a successful update of page HTML changes only the key html of the
\* page's document: every other key keeps its value, no other key appears,
\* and no other page row changes.
C10_UpdatePreservesOtherKeys ==
    [][ (resp'.op = "update_page_content" /\ resp'.status = "ok")
        => LET old == DocumentOf(pages, resp'.slug)
               new == DocumentOf(pages', resp'.slug)
           IN  /\ dict_keys(new) = dict_keys(old) \cup {"html"}
               /\ \A key \in dict_keys(old) \ {"html"} :
                      dict_value(new, key) = dict_value(old, key)
               /\ \A i \in 1..Len(pages) :
                      pages[i].slug # resp'.slug => pages'[i] = pages[i] ]_vars

C10_Witness ==
    /\ resp.op = "update_page_content"
    /\ resp.status = "ok"
    /\ resp.slug = home
    /\ dict_has(DocumentOf(pages, home), "title")
    /\ dict_value(DocumentOf(pages, home), "title") = "T"
    /\ dict_get(DocumentOf(pages, home), "html", "absent") = "<p>x</p>"

\* C11: after an authorized PUT content(slug, h) succeeds and before any
\* other write to that page, GET content(slug) returns h as the html, not
\* the built-in default, also when the PUT created the page.
C11_ReadAfterWrite ==
    [][ (/\ resp.op = "update_page_content"
         /\ resp.status = "ok"
         /\ can_edit(resp.authenticated, permissions, resp.slug, None)
         /\ resp'.op \in {"page", "rules_detail"}
         /\ resp'.slug = resp.slug)
        => (resp'.status = "ok" /\ resp'.html = resp.html) ]_vars

C11_Witness ==
    /\ resp.op = "page"
    /\ resp.slug = rules_x
    /\ resp.status = "ok"
    /\ resp.html = "<p>x</p>"
    /\ permissions = <<[page_slug |-> Star, section_id |-> None, can_edit |-> TRUE]>>

\* positions of the buttons of a block
PositionsIn(rows, content_block_id) ==
    {rows[i].position : i \in {j \in 1..Len(rows) : rows[j].content_block_id = content_block_id}}

\* C14: a successful button creation gives the new button the position
\* max(positions already in its block) + 1, and 1 in a block without buttons;
\* the buttons that existed keep their rows, positions included.
C14_NextPosition ==
    [][ (resp'.op = "create_button" /\ resp'.status = "ok")
        => /\ Len(buttons') = Len(buttons) + 1
           /\ \A i \in 1..Len(buttons) : buttons'[i] = buttons[i]
           /\ LET button == buttons'[Len(buttons')]
                  existing == PositionsIn(buttons, button.content_block_id)
              IN  button.position =
                      IF existing = {} THEN 1
                      ELSE (CHOOSE p \in existing : \A q \in existing : q <= p) + 1 ]_vars

C14_Witness ==
    /\ resp.op = "create_button"
    /\ resp.status = "ok"
    /\ Len(buttons) = 3
    /\ buttons[1].position = 5
    /\ buttons[2].position = 6
    /\ buttons[2].content_block_id = buttons[1].content_block_id
    /\ buttons[3].position = 1

\* the blocks of the page with the slug, at the section
BlocksAt(page_rows, block_rows, slug, section_id) ==
    {i \in 1..Len(block_rows) :
        /\ block_rows[i].section_id = section_id
        /\ \E j \in 1..Len(page_rows) :
              page_rows[j].slug = slug /\ page_rows[j].id = block_rows[i].page_id}

\* C15: the block upsert looks a block up by (page, section_id) only: when
\* one exists, whatever its block_type, the request reuses it, creates no
\* block and leaves its block_type as it was; a block is created only when
\* the pair has none.
C15_UpsertIgnoresBlockType ==
    [][ (resp'.op = "create_button" /\ resp'.status = "ok")
        => LET before == BlocksAt(pages, blocks, resp'.slug, resp'.section_id)
               button == buttons'[Len(buttons')]
           IN  IF before # {}
               THEN /\ blocks' = blocks
                    /\ \E i \in before : blocks[i].id = button.content_block_id
               ELSE /\ Len(blocks') = Len(blocks) + 1
                    /\ \A i \in 1..Len(blocks) : blocks'[i] = blocks[i]
                    /\ blocks'[Len(blocks')].id = button.content_block_id
                    /\ blocks'[Len(blocks')].section_id = resp'.section_id
                    /\ blocks'[Len(blocks')].block_type = "button_grid" ]_vars

C15_Witness ==
    /\ resp.op = "create_button"
    /\ resp.status = "ok"
    /\ resp.slug = home
    /\ resp.section_id = "footer"
    /\ blocks = Append(SeedBlocks, TextBlock)
    /\ buttons # <<>>
    /\ buttons[Len(buttons)].content_block_id = TextBlock.id

\* C16: editor mode is active exactly when the caller is authenticated and
\* the per-request flag equals "1", whatever the caller's grants and the page
\* requested; it is off for every unauthenticated caller.
C16_EditorModeGate ==
    resp.op = "inject_globals" => (resp.result <=> (resp.authenticated /\ resp.edit = "1"))

C16_Witness ==
    /\ resp.op = "inject_globals"
    /\ resp.authenticated
    /\ resp.edit = "1"
    /\ resp.slug = rules_x
    /\ permissions = <<[page_slug |-> rules_x, section_id |-> None, can_edit |-> FALSE]>>
    /\ resp.result = TRUE

\* C17: a stored document that does not parse as a JSON object is read as
\* the empty document and the request goes on: no page read and no accepted
\* page write ends in an error.
C17_MalformedContentRecovered ==
    (resp.op \in {"page", "rules_detail", "update_page_content"} /\ resp.status # "NotAuthenticated")
    => resp.status = "ok"

\* the built-in default a read of the page falls back to
DefaultFor(op) ==
    IF op = "rules_detail" THEN "<p>Content coming soon...</p>"
    ELSE "<p>This page is under construction. Content coming soon!</p>"

\* C19: GET content returns the stored value of key html whenever the key is
\* present, the empty string included, and the built-in default only when it
\* is absent; a read writes nothing into a stored document: every page row
\* that existed is unchanged and a lazily created page has the empty document.
C19_ReadReturnsStoredHtml ==
    [][ (resp'.op \in {"page", "rules_detail"})
        => /\ \A i \in 1..Len(pages) : pages'[i] = pages[i]
           /\ Len(pages') > Len(pages) =>
                  /\ Len(pages') = Len(pages) + 1
                  /\ pages'[Len(pages')].content_json = DefaultText
           /\ LET text == pages'[page_first(pages', resp'.slug)].content_json
                  document == get_content(text).value
              IN  text.kind # "malformed" =>
                      /\ resp'.status = "ok"
                      /\ resp'.html = IF "html" \in dict_keys(document)
                                      THEN dict_value(document, "html")
                                      ELSE DefaultFor(resp'.op) ]_vars

C19_Witness ==
    /\ resp.op = "page"
    /\ resp.status = "ok"
    /\ resp.slug = home
    /\ resp.html = ""
    /\ dict_has(DocumentOf(pages, home), "html")
    /\ dict_value(DocumentOf(pages, home), "html") = ""

\* C20: a successful content write sets the page's updated_at to the time
\* of the write; updated_at of a page never decreases and is never later
\* than the clock; reads and rejected writes leave every updated_at unchanged.
C20_UpdatedAtFollowsWrites ==
    [][ /\ \A i \in 1..Len(pages) :
              /\ pages'[i].updated_at >= pages[i].updated_at
              /\ pages'[i].updated_at <= now'
        /\ (resp'.op = "update_page_content" /\ resp'.status = "ok")
              => pages'[page_first(pages', resp'.slug)].updated_at = now'
        /\ (\/ resp'.op \in {"page", "rules_detail"}
            \/ (resp'.op \in {"update_page_content", "create_button"} /\ resp'.status # "ok"))
              => \A i \in 1..Len(pages) : pages'[i].updated_at = pages[i].updated_at ]_vars

C20_Witness ==
    /\ resp.op = "update_page_content"
    /\ resp.status = "ok"
    /\ resp.slug = home
    /\ now = 1
    /\ pages[1].updated_at = 1
    /\ Len(pages) = 2
    /\ pages[2].updated_at = 0

UpdateOps == {"update_page_content", "update_document"}

\* C12: when two requests run the read-modify-write update on the same page
\* document and set different keys, both keys carry their written values once
\* both have finished, under every interleaving of their steps.
C12_DifferentKeysBothKept ==
    \A p \in Procs, q \in Procs :
        (/\ p # q
         /\ reqs[p].pc = "done" /\ reqs[p].status = "ok" /\ reqs[p].op \in UpdateOps
         /\ reqs[q].pc = "done" /\ reqs[q].status = "ok" /\ reqs[q].op \in UpdateOps
         /\ reqs[p].slug = reqs[q].slug
         /\ reqs[p].key # reqs[q].key)
        => LET document == DocumentOf(pages, reqs[p].slug)
           IN  /\ dict_has(document, reqs[p].key)
               /\ dict_value(document, reqs[p].key) = reqs[p].value
               /\ dict_has(document, reqs[q].key)
               /\ dict_value(document, reqs[q].key) = reqs[q].value

\* C13: when two PUT content requests set html of the same page to different
\* values at the same time, the one that commits over the other's write does
\* not report success: a request whose document was changed by the other's
\* successful write after it had read it is answered with a conflict.
C13_SameKeyConflictSurfaced ==
    [][ \A p \in Procs, q \in Procs :
          (/\ p # q
           /\ reqs[p].op = "update_page_content"
           /\ reqs[p].pc = "commit" /\ reqs'[p].pc = "done"
           /\ reqs[p].found # 0
           /\ pages[reqs[p].found].content_json # reqs[p].read_text
           /\ reqs[q].op = "update_page_content"
           /\ reqs[q].pc = "done" /\ reqs[q].status = "ok"
           /\ reqs[q].slug = reqs[p].slug
           /\ reqs[q].value # reqs[p].value)
          => reqs'[p].status # "ok" ]_vars

\* C18: a read or an accepted write of a slug without a Page record never
\* fails over the missing page: it completes and the page exists afterwards,
\* also when two requests create the same unknown slug at the same time.
C18_LazyCreateNeverFails ==
    \A p \in Procs :
        (reqs[p].pc = "done" /\ reqs[p].op \in {"page", "update_page_content"})
        => /\ reqs[p].status # "IntegrityError"
           /\ page_first(pages, reqs[p].slug) # 0

\* no two rows of the pages table have the same slug
UniqueSlugs(rows) ==
    \A i, j \in 1..Len(rows) : rows[i].slug = rows[j].slug => i = j

\* request p ends with the refusal of its INSERT and the table is left as it was
RefusedInsert(p) ==
    (reqs[p].status # "IntegrityError" /\ reqs'[p].status = "IntegrityError")
    => pages' = pages

\* C21: under every interleaving of page reads, content writes and button
\* creations there is at most one Page row per slug, and a lazy creation that
\* would add a second row for a slug is not committed.
C21_OnePagePerSlug ==
    /\ [] UniqueSlugs(pages)
    /\ [][ \A p \in Procs : RefusedInsert(p) ]_vars

C21_Witness ==
    /\ reqs[1].op = "create_button"
    /\ reqs[1].status = "ok"
    /\ reqs[1].slug = rules_x
    /\ reqs[2].op = "create_button"
    /\ reqs[2].status = "IntegrityError"
    /\ reqs[2].slug = rules_x
    /\ Len(pages) = 2

\* no two rows of the content_blocks table have the same page and section
UniqueBlocks(rows) ==
    \A i, j \in 1..Len(rows) :
        (rows[i].page_id = rows[j].page_id /\ rows[i].section_id = rows[j].section_id)
        => i = j

\* both requests created a button for the same page and section
SamePairCreated ==
    /\ \A p \in Procs : reqs[p].op = "create_button" /\ reqs[p].status = "ok"
    /\ reqs[1].slug = reqs[2].slug
    /\ reqs[1].section_id = reqs[2].section_id

\* C22: there is at most one ContentBlock row per page and section, also
\* when two button creations for a pair without a block interleave: the two
\* buttons are then in the same block.
C22_OneBlockPerSection ==
    /\ UniqueBlocks(blocks)
    /\ SamePairCreated => reqs[1].block_id = reqs[2].block_id

\* no two buttons of a block have the same position
DistinctPositions(rows) ==
    \A i, j \in 1..Len(rows) :
        (rows[i].content_block_id = rows[j].content_block_id
         /\ rows[i].position = rows[j].position)
        => i = j

\* C23: after any button creations, those whose reading of the highest
\* position and whose insert interleave included, the positions of the
\* buttons of a block are pairwise distinct.
C23_PositionsDistinct == DistinctPositions(buttons)
====
